---- MODULE Spec2Model ----
(***************************************************************************)
(* A model of backend/server.py of FlacLossless: the JobManager (job       *)
(* table, work queue, worker threads running _process_job), the per-job    *)
(* subscriber fan-out (notify_subscribers / the job_events generator), the *)
(* cache dictionary and the files of AUDIO_DIR.                            *)
(*                                                                         *)
(* Threads of the program are processes of the model.  A step of a process *)
(* is one shared-memory access (or a run of accesses no other thread can   *)
(* tell apart); the worker threads take no lock, only create_job does.     *)
(***************************************************************************)
EXTENDS Integers, Sequences, FiniteSets, TLC

(***************************************************************************)
(* Bounds of the model.                                                    *)
(***************************************************************************)
\* How many jobs create_job may create in one behaviour.
MaxJobs == 3
\* The same, where every progress report is followed (SpecProgress).
MaxProgressJobs == 1
\* The same, where evictions are followed (SpecCache).
MaxCacheJobs == 3
\* The same, where SSE connections are followed (SpecFanout).
MaxFanoutJobs == 1
\* The same, where /download requests create the jobs (SpecWait).
MaxWaitJobs == 2
\* The same, where the retention sweep runs beside the jobs (SpecRetain).
MaxSweepJobs == 1
\* How many progress reports yt-dlp may deliver to progress_hook in one fetch.
MaxReports == 3
\* The largest byte count (downloaded or total) a progress report carries.
MaxBytes == 2

\* The largest file size, and the largest number a Range header carries.
MaxSize == 3
\* server.py:522 (the most bytes one f.read of a range response asks for).
ChunkSize == 2

\* server.py:32 (the number of worker threads JobManager.__init__ starts).
MAX_CONCURRENT_JOBS == 2

\* The last hour the clock reaches.
MaxClock == 2
\* server.py:31 (the retention window, in hours).
CLEANUP_HOURS == 1

\* The external resource ids (YouTube video ids) requests may name.
VideoIds == {"va", "vb"}
\* The SSE connections (one job_events.generate generator each).
Subscribers == {"s1", "s2"}
\* The worker threads.
Workers == 1 .. MAX_CONCURRENT_JOBS

\* Python's None (an absent path, locator, message or request).
None == << >>


VARIABLES
    jobs,       \* job_manager.jobs: job id -> DownloadJob, ids 1..Len(jobs)
    job_queue,  \* job_manager.job_queue: FIFO of job ids
    cache,      \* the module-level cache dict: video id -> entry
    files,      \* the non-empty files that exist in AUDIO_DIR (by file id)
    workers,    \* each worker thread's position in _worker/_process_job
    subs,       \* each job_events.generate generator's position and queue
    evicting,   \* delete_cached between os.remove and del cache[video_id]
    waiter,     \* the thread serving a /download request (download_audio)
    disk,       \* the files stream_audio can be asked for: name -> size
    served,     \* the last /stream request and the response it was given
    sweeper,    \* the cleanup_worker thread's position in its pass
    clock,      \* datetime.now(), in hours
    cache_file, \* <<the mapping CACHE_FILE (cache.json) holds>>, or None
    buffered    \* what a worker's save_cache has dumped into its file object

\* The state of the request handlers download_audio and stream_audio.
http == <<waiter, disk, served>>
\* The state of the retention sweep.
retention == <<sweeper, clock>>
\* The persisted cache and the calls of save_cache that are under way.
persist == <<cache_file, buffered>>

vars == <<jobs, job_queue, cache, files, workers, subs, evicting, http, retention,
          persist>>

(***************************************************************************)
(* DownloadJob                                                             *)
(***************************************************************************)
\* DownloadJob.__init__: a fresh record.
DownloadJob(video_id) ==
    [ video_id    |-> video_id,
      status      |-> "queued",
      progress    |-> 0,
      stage       |-> "Waiting...",
      error       |-> None,
      stream_url  |-> None,
      metadata    |-> None,
      subscribers |-> << >>,
      file_path   |-> None ]

\* DownloadJob.to_dict: the snapshot a reader or a subscriber is given.
to_dict(job) ==
    [ video_id   |-> job.video_id,
      status     |-> job.status,
      progress   |-> job.progress,
      stage      |-> job.stage,
      error      |-> job.error,
      stream_url |-> job.stream_url,
      metadata   |-> job.metadata ]

Terminal == {"completed", "failed"}

JobIds == 1 .. Len(jobs)

\* server.py:170-172: file_id = uuid4() and output_path; a job is run at most
\* once, so its job id stands for the fresh uuid of its run.
OutputPath(job_id) == <<"audio", job_id>>

\* server.py:137 and 279: f"/stream/{os.path.basename(file_path)}".
StreamUrl(file_path) == <<"/stream/", file_path>>

\* server.py:132 and 267: os.path.exists(p) and os.path.getsize(p) > 0.
FileOk(file_path) == file_path \in files

(***************************************************************************)
(* Initial state: the module has been imported (cache loaded, JobManager   *)
(* constructed, its workers blocked in job_queue.get()).                   *)
(***************************************************************************)
WorkerIdle == [pc |-> "idle", job |-> 0, i |-> 0, ret |-> "idle", n |-> 0]

SubIdle == [pc |-> "idle", job |-> 0, q |-> << >>, delivered |-> << >>,
            disc |-> FALSE]

\* No response yet.
NoResponse == [code |-> 0]

\* No /stream request has been served.
NotServed == [filename |-> << >>, range |-> << >>, resp |-> NoResponse]

\* No /download request is being served.
WaiterIdle == [pc |-> "idle", video_id |-> "", job |-> 0, resp |-> NoResponse]

\* cleanup_worker sleeps (server.py:598); `items` is the snapshot of its pass,
\* `i` its position in it, `deleted` its counter, `errors` the positions for
\* which it logged "Cleanup error".
SweeperIdle == [pc |-> "sleep", items |-> << >>, i |-> 0, cutoff |-> 0,
                deleted |-> 0, errors |-> {}]

\* No request is served, nothing can be streamed, the sweeper sleeps.
InitHttp ==
    /\ waiter = WaiterIdle
    /\ disk = << >>
    /\ served = NotServed

InitRetention ==
    /\ sweeper = SweeperIdle
    /\ clock = 0

\* server.py:49: cache is what load_cache read from CACHE_FILE (a missing
\* file reads as the empty mapping); no save_cache is under way.  The content
\* of the file is followed where `followed` says so; elsewhere cache_file is
\* None and stays None, and what save_cache writes is left out.
InitPersist(followed) ==
    /\ cache_file = IF followed THEN <<cache>> ELSE None
    /\ buffered = [w \in Workers |-> << >>]

Init ==
    /\ jobs = << >>
    /\ job_queue = << >>
    /\ cache = [v \in {} |-> None]
    /\ files = {}
    /\ workers = [w \in Workers |-> WorkerIdle]
    /\ subs = [s \in Subscribers |-> SubIdle]
    /\ evicting = None
    /\ InitHttp
    /\ InitRetention
    /\ InitPersist(FALSE)

(***************************************************************************)
(* JobManager.create_job (the body runs under job_manager.lock)            *)
(***************************************************************************)
\* CacheValid, had create_job trusted the entry without looking at its file.
CacheEntryPresent(video_id) == video_id \in DOMAIN cache

\* server.py:129-132: the cache entry is there and its file is non-empty.
CacheValid(video_id) ==
    /\ video_id \in DOMAIN cache
    /\ cache[video_id].file # None
    /\ FileOk(cache[video_id].file)

\* server.py:133-139: the record synthesised from a valid cache entry.
CachedJob(video_id, cached_entry) ==
    [ DownloadJob(video_id) EXCEPT
        !.status     = "completed",
        !.progress   = 100,
        !.stage      = "Loaded from cache",
        !.stream_url = StreamUrl(cached_entry.file),
        !.metadata   = cached_entry.metadata,
        !.file_path  = cached_entry.file ]

\* Enqueued, had create_job queued the job on the cache fast path too.
EnqueuedAlways(video_id, job_id) == Append(job_queue, job_id)

\* server.py:140-146: what create_job puts on the work queue.
Enqueued(video_id, job_id) ==
    IF CacheValid(video_id) THEN job_queue ELSE Append(job_queue, job_id)

\* server.py:127-146: the job table and the work queue after the call.
create_job(video_id) ==
    /\ jobs' = Append(jobs, IF CacheValid(video_id)
                            THEN CachedJob(video_id, cache[video_id])
                            ELSE DownloadJob(video_id))
    /\ job_queue' = Enqueued(video_id, Len(jobs) + 1)

(***************************************************************************)
(* DownloadJob.notify_subscribers: one worker publishing its job.  The     *)
(* snapshot is serialised once; then `for q in self.subscribers` walks the *)
(* live list by index, one q.put per step.                                 *)
(***************************************************************************)
\* Where a worker goes on after notify_subscribers: `ret`, or back to
\* job_queue.get() when _process_job is over.
Returned(wk, ret) ==
    IF ret = "idle" THEN WorkerIdle ELSE [wk EXCEPT !.pc = ret, !.i = 0]

\* Entering notify_subscribers(job); `ret` is where the caller goes on
\* afterwards.  With no handle registered the loop body never runs, and the
\* call is over within the step that makes it.
Notifying(wk, job, ret) ==
    IF job.subscribers = << >>
    THEN Returned(wk, ret)
    ELSE [wk EXCEPT !.pc = "notify", !.i = 1, !.ret = ret]

\* server.py:111: the list iterator's next element, if it has one (Python's
\* listiterator: index i against the list's current length).
HasNext(subscribers, i) == i <= Len(subscribers)

NotifyStep(w) ==
    /\ workers[w].pc = "notify"
    /\ LET wk == workers[w]
           job == jobs[wk.job]
       IN  IF HasNext(job.subscribers, wk.i)
           THEN /\ subs' = [subs EXCEPT ![job.subscribers[wk.i]].q =
                                           Append(@, to_dict(job))]
                /\ workers' = [workers EXCEPT ![w].i = wk.i + 1]
           ELSE /\ workers' = [workers EXCEPT ![w] = Returned(wk, wk.ret)]
                /\ UNCHANGED subs
    /\ UNCHANGED <<jobs, job_queue, cache, files, evicting, http, retention, persist>>

(***************************************************************************)
(* JobManager._worker and JobManager._process_job                          *)
(***************************************************************************)
\* The worker threads run the same code and hold no state of their own while
\* they block in job_queue.get(): which of the blocked threads the queue wakes
\* cannot be told from the state.  The model lets the first of them take the
\* job; every other choice gives the same behaviour with the names of two
\* workers exchanged.
FirstIdle(w) == \A v \in Workers : workers[v].pc = "idle" => w <= v

\* Dequeue, had the worker handed the running job to the background and
\* gone back to the queue while extract_info is still running.
DequeueWhileFetching(w) ==
    /\ workers[w].pc \in {"idle", "fetch"}
    /\ workers[w].pc = "idle" => FirstIdle(w)
    /\ job_queue # << >>
    /\ job_queue' = Tail(job_queue)
    /\ LET job_id == Head(job_queue)
       IN  workers' = [workers EXCEPT ![w] =
                IF job_id \in JobIds /\ jobs[job_id].status = "queued"
                THEN [WorkerIdle EXCEPT !.pc = "start", !.job = job_id]
                ELSE WorkerIdle]
    /\ UNCHANGED <<jobs, cache, files, subs, evicting, http, retention, persist>>

\* server.py:154-157: take a job id; run the job if it is still queued.
Dequeue(w) ==
    /\ workers[w].pc = "idle"
    /\ FirstIdle(w)
    /\ job_queue # << >>
    /\ job_queue' = Tail(job_queue)
    /\ LET job_id == Head(job_queue)
       IN  workers' = [workers EXCEPT ![w] =
                IF job_id \in JobIds /\ jobs[job_id].status = "queued"
                THEN [WorkerIdle EXCEPT !.pc = "start", !.job = job_id]
                ELSE WorkerIdle]
    /\ UNCHANGED <<jobs, cache, files, subs, evicting, http, retention, persist>>

\* Start, had it forgotten to set the status.
StartKeepsStatus(w) ==
    /\ workers[w].pc = "start"
    /\ jobs' = [jobs EXCEPT ![workers[w].job] =
                  [@ EXCEPT !.stage = "Starting download...", !.progress = 5]]
    /\ workers' = [workers EXCEPT ![w] = Notifying(@, jobs[workers[w].job], "info")]
    /\ UNCHANGED <<job_queue, cache, files, subs, evicting, http, retention, persist>>

\* server.py:165-168.
Start(w) ==
    /\ workers[w].pc = "start"
    /\ jobs' = [jobs EXCEPT ![workers[w].job] =
                  [@ EXCEPT !.status = "downloading",
                            !.stage = "Starting download...",
                            !.progress = 5]]
    /\ workers' = [workers EXCEPT ![w] = Notifying(@, jobs[workers[w].job], "info")]
    /\ UNCHANGED <<job_queue, cache, files, subs, evicting, http, retention, persist>>

\* server.py:234-236.
FetchInfo(w) ==
    /\ workers[w].pc = "info"
    /\ jobs' = [jobs EXCEPT ![workers[w].job] =
                  [@ EXCEPT !.stage = "Fetching video info...",
                            !.progress = 10]]
    /\ workers' = [workers EXCEPT ![w] = Notifying(@, jobs[workers[w].job], "fetch")]
    /\ UNCHANGED <<job_queue, cache, files, subs, evicting, http, retention, persist>>

\* Python's min.
Min(a, b) == IF a < b THEN a ELSE b

\* The reports yt-dlp may hand to progress_hook: d['status'], the total
\* (total_bytes or total_bytes_estimate, 0 when unknown) and downloaded_bytes.
Reports ==
    [status : {"downloading"}, total : 0 .. MaxBytes, downloaded : 0 .. MaxBytes]
    \cup {[status |-> "finished", total |-> 0, downloaded |-> 0]}

\* server.py:174-195: the job record after progress_hook(d).
progress_hook(job, d) ==
    IF d.status = "downloading"
    THEN [job EXCEPT
            !.progress = IF d.total > 0
                         THEN Min((d.downloaded * 60) \div d.total + 10, 70)
                         ELSE Min(job.progress + 1, 70),
            !.stage = "Downloading..."]
    ELSE IF d.status = "finished"
    THEN [job EXCEPT !.progress = 75, !.stage = "Converting to MP3..."]
    ELSE job

\* server.py:239: yt-dlp calls progress_hook during extract_info.
Report(w, d) ==
    /\ workers[w].pc = "fetch"
    /\ workers[w].n < MaxReports
    /\ jobs' = [jobs EXCEPT ![workers[w].job] = progress_hook(@, d)]
    /\ workers' = [workers EXCEPT ![w] = Notifying([@ EXCEPT !.n = @ + 1], jobs[workers[w].job], "fetch")]
    /\ UNCHANGED <<job_queue, cache, files, subs, evicting, http, retention, persist>>

\* Python's dict assignment d[k] = v and del d[k].
DictPut(d, k, v) == [x \in DOMAIN d \cup {k} |-> IF x = k THEN v ELSE d[x]]
DictDel(d, k) == [x \in DOMAIN d \ {k} |-> d[x]]

\* server.py:240-245: job.metadata as built from the info yt-dlp returned.
Metadata(job) == <<"title", job.video_id>>

\* server.py:239-250: extract_info returns; `produced` says whether it (and
\* the conversion of lines 252-265) left a non-empty output file.
FetchReturn(w, produced) ==
    /\ workers[w].pc = "fetch"
    /\ files' = IF produced THEN files \cup {OutputPath(workers[w].job)} ELSE files
    /\ jobs' = [jobs EXCEPT ![workers[w].job] =
                  [@ EXCEPT !.metadata = Metadata(jobs[workers[w].job]),
                            !.progress = 85,
                            !.stage = "Finalizing..."]]
    /\ workers' = [workers EXCEPT ![w] = Notifying(@, jobs[workers[w].job], "verify")]
    /\ UNCHANGED <<job_queue, cache, subs, evicting, http, retention, persist>>

\* server.py:239 (or 258): extract_info or the conversion raises.
FetchRaise(w) ==
    /\ workers[w].pc = "fetch"
    /\ workers' = [workers EXCEPT ![w].pc = "except"]
    /\ UNCHANGED <<jobs, job_queue, cache, files, subs, evicting, http, retention, persist>>

\* server.py:270-275: the entry _process_job writes for its job.
CacheEntry(job_id) ==
    [file |-> OutputPath(job_id), metadata |-> Metadata(jobs[job_id]),
     downloaded_at |-> clock]

\* server.py:36-49: an entry load_cache() found in CACHE_FILE, written by an
\* earlier run of the program (whose output file no job of this run names).
CacheEntry0 ==
    [file |-> <<"audio", 0>>, metadata |-> <<"title", "va">>,
     downloaded_at |-> 0]

\* server.py:267-275: no output file raises; otherwise cache[video_id] = entry.
VerifyAndCache(w) ==
    /\ workers[w].pc = "verify"
    /\ LET job_id == workers[w].job
       IN  IF FileOk(OutputPath(job_id))
           THEN /\ cache' = DictPut(cache, jobs[job_id].video_id, CacheEntry(job_id))
                /\ workers' = [workers EXCEPT ![w].pc = "save"]
           ELSE /\ workers' = [workers EXCEPT ![w].pc = "except"]
                /\ UNCHANGED cache
    /\ UNCHANGED <<jobs, job_queue, files, subs, evicting, http, retention, persist>>

\* server.py:45-47: open(CACHE_FILE, 'w') and json.dump(cache_data, f) read
\* the mapping into the file object of thread t.
save_cache(t) ==
    IF cache_file = None THEN buffered
                         ELSE [buffered EXCEPT ![t] = <<cache>>]

\* server.py:276: save_cache(cache) opens CACHE_FILE and dumps the cache into
\* its file object, or raises (OSError).
SaveCache(w, ok) ==
    /\ workers[w].pc = "save"
    /\ workers' = [workers EXCEPT ![w].pc = IF ok THEN "result" ELSE "except"]
    /\ buffered' = IF ok THEN save_cache(w) ELSE buffered
    /\ UNCHANGED <<jobs, job_queue, cache, files, subs, evicting, http, retention,
                   cache_file>>

\* server.py:47 and 278-281: save_cache closes its file object, and what was
\* dumped into it becomes the content of CACHE_FILE; then the result and
\* progress = 100, before the status.
SetResult(w) ==
    /\ workers[w].pc = "result"
    /\ jobs' = [jobs EXCEPT ![workers[w].job] =
                  [@ EXCEPT !.file_path = OutputPath(workers[w].job),
                            !.stream_url = StreamUrl(OutputPath(workers[w].job)),
                            !.progress = 100,
                            !.stage = "Complete!"]]
    /\ workers' = [workers EXCEPT ![w].pc = "complete"]
    /\ cache_file' = IF cache_file = None THEN None ELSE buffered[w]
    /\ buffered' = [buffered EXCEPT ![w] = << >>]
    /\ UNCHANGED <<job_queue, cache, files, subs, evicting, http, retention>>

\* server.py:282-283.
Complete(w) ==
    /\ workers[w].pc = "complete"
    /\ jobs' = [jobs EXCEPT ![workers[w].job].status = "completed"]
    /\ workers' = [workers EXCEPT ![w] = Notifying(@, jobs[workers[w].job], "idle")]
    /\ UNCHANGED <<job_queue, cache, files, subs, evicting, http, retention, persist>>

\* Fail, had _process_job let the exception go up to _worker, which logs it.
FailUncaught(w) ==
    /\ workers[w].pc = "except"
    /\ workers' = [workers EXCEPT ![w] = WorkerIdle]
    /\ UNCHANGED <<jobs, job_queue, cache, files, subs, evicting, http, retention, persist>>

\* Fail, had the except clause put the job back on the queue for a retry.
FailRequeues(w) ==
    /\ workers[w].pc = "except"
    /\ jobs' = [jobs EXCEPT ![workers[w].job] =
                  [@ EXCEPT !.status = "failed",
                            !.error = <<"error">>,
                            !.stage = "Failed"]]
    /\ job_queue' = Append(job_queue, workers[w].job)
    /\ workers' = [workers EXCEPT ![w] = Notifying(@, jobs[workers[w].job], "idle")]
    /\ UNCHANGED <<cache, files, subs, evicting, http, retention, persist>>

\* server.py:287-292: the except clause of _process_job.
Fail(w) ==
    /\ workers[w].pc = "except"
    /\ jobs' = [jobs EXCEPT ![workers[w].job] =
                  [@ EXCEPT !.status = "failed",
                            !.error = <<"error">>,
                            !.stage = "Failed"]]
    /\ workers' = [workers EXCEPT ![w] = Notifying(@, jobs[workers[w].job], "idle")]
    /\ UNCHANGED <<job_queue, cache, files, subs, evicting, http, retention, persist>>

(***************************************************************************)
(* delete_cached (DELETE /cache/<video_id>), which takes no lock           *)
(***************************************************************************)
\* server.py:579-587: the entry is there; its file is removed.
EvictFile(video_id) ==
    /\ evicting = None
    /\ video_id \in DOMAIN cache
    /\ files' = files \ {cache[video_id].file}
    /\ evicting' = <<video_id>>
    /\ UNCHANGED <<jobs, job_queue, cache, workers, subs, http, retention, persist>>

\* server.py:588-592: del cache[video_id] and save_cache(cache) (a KeyError
\* or an error of save_cache is answered with 500).
EvictEntry(ok) ==
    /\ evicting # None
    /\ cache' = DictDel(cache, evicting[1])
    /\ cache_file' = IF evicting[1] \in DOMAIN cache /\ ok /\ cache_file # None
                       THEN <<cache'>>
                       ELSE cache_file
    /\ evicting' = None
    /\ UNCHANGED <<jobs, job_queue, files, workers, subs, http, retention,
                   buffered>>

(***************************************************************************)
(* cleanup_worker: the retention sweep, which takes no lock either         *)
(***************************************************************************)
\* An hour goes by.
Tick ==
    /\ clock < MaxClock
    /\ clock' = clock + 1
    /\ UNCHANGED <<jobs, job_queue, cache, files, workers, subs, evicting,
                   http, sweeper, persist>>

\* The orders in which a dict with these keys may list them.
Orders(keys) ==
    {order \in [1 .. Cardinality(keys) -> keys] :
        \A a, b \in 1 .. Cardinality(keys) : order[a] = order[b] => a = b}

\* server.py:600-604: the pass starts; cutoff, deleted = 0, and the snapshot
\* list(cache.items()).
SweepStart(order) ==
    /\ sweeper.pc = "sleep"
    /\ sweeper' = [SweeperIdle EXCEPT
                     !.pc = "entry",
                     !.items = [k \in 1 .. Len(order) |->
                                  <<order[k], cache[order[k]]>>],
                     !.i = 1,
                     !.cutoff = clock - CLEANUP_HOURS]
    /\ UNCHANGED <<jobs, job_queue, cache, files, workers, subs, evicting,
                   http, clock, persist>>

\* SweepEntry, had the try been around the loop: an error ends the pass.
SweepEntryAborts(removed) ==
    /\ sweeper.pc = "entry"
    /\ sweeper.i <= Len(sweeper.items)
    /\ LET entry == sweeper.items[sweeper.i][2]
       IN  IF entry.downloaded_at < sweeper.cutoff
           THEN IF FileOk(entry.file)
                THEN IF removed
                     THEN /\ files' = files \ {entry.file}
                          /\ sweeper' = [sweeper EXCEPT !.pc = "del"]
                     ELSE /\ sweeper' = [sweeper EXCEPT
                                            !.pc = "sleep",
                                            !.errors = @ \cup {sweeper.i}]
                          /\ UNCHANGED files
                ELSE /\ sweeper' = [sweeper EXCEPT !.pc = "del"]
                     /\ UNCHANGED files
           ELSE /\ sweeper' = [sweeper EXCEPT !.i = @ + 1]
                /\ UNCHANGED files
    /\ UNCHANGED <<jobs, job_queue, cache, workers, subs, evicting, http,
                   clock, persist>>

\* server.py:605-612 and 615-616: the next entry of the snapshot.  One that
\* is older than the cutoff has its file removed if the file is there;
\* os.remove may raise (`removed` is FALSE), which is logged, and the pass
\* goes on with the entry after it.
SweepEntry(removed) ==
    /\ sweeper.pc = "entry"
    /\ sweeper.i <= Len(sweeper.items)
    /\ LET entry == sweeper.items[sweeper.i][2]
       IN  IF entry.downloaded_at < sweeper.cutoff
           THEN IF FileOk(entry.file)
                THEN IF removed
                     THEN /\ files' = files \ {entry.file}
                          /\ sweeper' = [sweeper EXCEPT !.pc = "del"]
                     ELSE /\ sweeper' = [sweeper EXCEPT
                                            !.i = @ + 1,
                                            !.errors = @ \cup {sweeper.i}]
                          /\ UNCHANGED files
                ELSE /\ sweeper' = [sweeper EXCEPT !.pc = "del"]
                     /\ UNCHANGED files
           ELSE /\ sweeper' = [sweeper EXCEPT !.i = @ + 1]
                /\ UNCHANGED files
    /\ UNCHANGED <<jobs, job_queue, cache, workers, subs, evicting, http,
                   clock, persist>>

\* server.py:613-616: del cache[video_id] and deleted += 1; a KeyError (the
\* key is gone) is logged like any other error.
SweepDel ==
    /\ sweeper.pc = "del"
    /\ LET video_id == sweeper.items[sweeper.i][1]
       IN  IF video_id \in DOMAIN cache
           THEN /\ cache' = DictDel(cache, video_id)
                /\ sweeper' = [sweeper EXCEPT !.pc = "entry", !.i = @ + 1,
                                              !.deleted = @ + 1]
           ELSE /\ sweeper' = [sweeper EXCEPT !.pc = "entry", !.i = @ + 1,
                                              !.errors = @ \cup {sweeper.i}]
                /\ UNCHANGED cache
    /\ UNCHANGED <<jobs, job_queue, files, workers, subs, evicting, http,
                   clock, persist>>

\* server.py:618-623 and 598: the snapshot is done; save_cache(cache) if
\* anything was deleted (an error of it is logged), and sleep again.
SweepEnd(ok) ==
    /\ sweeper.pc = "entry"
    /\ sweeper.i > Len(sweeper.items)
    /\ sweeper' = [sweeper EXCEPT !.pc = "sleep"]
    /\ cache_file' = IF sweeper.deleted > 0 /\ ok /\ cache_file # None
                       THEN <<cache>>
                       ELSE cache_file
    /\ UNCHANGED <<jobs, job_queue, cache, files, workers, subs, evicting,
                   http, clock, buffered>>

(***************************************************************************)
(* download_audio (GET or POST /download): look up, create, wait, answer   *)
(***************************************************************************)
\* server.py:493: job.error or 'Download timed out'.
TimedOut == <<"Download timed out">>

\* server.py:467-476: a valid cache entry is answered at once; otherwise the
\* handler goes on to create_job.
DownloadLookup(video_id) ==
    /\ waiter.pc = "idle"
    /\ waiter' =
         IF CacheValid(video_id)
         THEN [WaiterIdle EXCEPT
                 !.video_id = video_id,
                 !.resp = [code |-> 200,
                           file |-> StreamUrl(cache[video_id].file),
                           metadata |-> cache[video_id].metadata,
                           cached |-> TRUE]]
         ELSE [WaiterIdle EXCEPT !.pc = "create", !.video_id = video_id]
    /\ UNCHANGED <<jobs, job_queue, cache, files, workers, subs, evicting,
                   disk, served, retention, persist>>

\* server.py:478-481.
DownloadCreate ==
    /\ waiter.pc = "create"
    /\ create_job(waiter.video_id)
    /\ waiter' = [waiter EXCEPT !.pc = "poll", !.job = Len(jobs) + 1]
    /\ UNCHANGED <<cache, files, workers, subs, evicting, disk, served,
                   retention, persist>>

\* server.py:482-483: the loop is left when the status is read as terminal,
\* or when 180 seconds have gone by (a pass that sleeps changes nothing).
DownloadPoll ==
    /\ waiter.pc = "poll"
    /\ waiter' = [waiter EXCEPT !.pc = "reply"]
    /\ UNCHANGED <<jobs, job_queue, cache, files, workers, subs, evicting,
                   disk, served, retention, persist>>

\* DownloadError, had the handler given up the job it stopped waiting for.
DownloadErrorCancels ==
    /\ waiter.pc = "error"
    /\ waiter' = [waiter EXCEPT
                    !.pc = "idle",
                    !.resp = [code |-> 500,
                              error |-> IF jobs[waiter.job].error = None
                                        THEN TimedOut
                                        ELSE jobs[waiter.job].error]]
    /\ jobs' = [jobs EXCEPT ![waiter.job].status = "failed"]
    /\ UNCHANGED <<job_queue, cache, files, workers, subs, evicting,
                   disk, served, retention, persist>>

\* server.py:485-491: the status is read again; a completed job is answered
\* with its result.
DownloadReply ==
    /\ waiter.pc = "reply"
    /\ waiter' =
         IF jobs[waiter.job].status = "completed"
         THEN [waiter EXCEPT
                 !.pc = "idle",
                 !.resp = [code |-> 200,
                           file |-> jobs[waiter.job].stream_url,
                           metadata |-> jobs[waiter.job].metadata,
                           cached |-> FALSE]]
         ELSE [waiter EXCEPT !.pc = "error"]
    /\ UNCHANGED <<jobs, job_queue, cache, files, workers, subs, evicting,
                   disk, served, retention, persist>>

\* server.py:492-493: any other status is answered 500 with the job's error,
\* or 'Download timed out' when it has none.
DownloadError ==
    /\ waiter.pc = "error"
    /\ waiter' = [waiter EXCEPT
                    !.pc = "idle",
                    !.resp = [code |-> 500,
                              error |-> IF jobs[waiter.job].error = None
                                        THEN TimedOut
                                        ELSE jobs[waiter.job].error]]
    /\ UNCHANGED <<jobs, job_queue, cache, files, workers, subs, evicting,
                   disk, served, retention, persist>>

(***************************************************************************)
(* stream_audio (GET /stream/<filename>)                                   *)
(***************************************************************************)
\* The file names requests carry, as strings of characters.
Filenames ==
    { <<"a", ".", "m">>, <<".", ".">>, <<"a", "/", "b">>,
      <<".", ".", "/", "a">> }

\* One side of the '-' of a Range header after 'bytes=' is taken off: empty,
\* a decimal number, or something int() raises ValueError for.
RangeFields ==
    {[kind |-> "empty"], [kind |-> "junk"]}
    \cup {[kind |-> "int", value |-> n] : n \in 0 .. MaxSize}

\* request.headers.get('Range') as server.py:511 splits it: no header (or an
\* empty one), a header without '-', a header with one '-'.
RangeHeaders ==
    {<< >>} \cup {<<a>> : a \in RangeFields}
            \cup {<<a, b>> : a, b \in RangeFields}

\* Python's `sub in s` for strings.
Contains(s, sub) ==
    \E k \in 1 .. Len(s) - Len(sub) + 1 : SubSeq(s, k, k + Len(sub) - 1) = sub

\* Python's max.
Max(a, b) == IF a > b THEN a ELSE b

\* The bytes of a file at offsets first .. last - 1, each named by its offset.
Bytes(first, last) == [k \in 1 .. last - first |-> first + k - 1]

\* server.py:517-527: what generate() yields, from offset pos on, while
\* `remaining` bytes are still asked for; f.read returns what is left of the
\* file, at most chunk_size bytes, and nothing at or after its end.
RECURSIVE generate(_, _, _)
generate(pos, remaining, file_size) ==
    IF remaining > 0
    THEN LET chunk_size == Min(ChunkSize, remaining)
             data == Bytes(pos, Min(pos + chunk_size, Max(file_size, pos)))
         IN  IF data = << >>
             THEN << >>
             ELSE data \o generate(pos + Len(data), remaining - Len(data),
                                   file_size)
    ELSE << >>

\* server.py:511-513: whether taking the header apart raises (IndexError for
\* a header without '-', ValueError for a field int() does not take).
RangeRaises(range_header) ==
    \/ range_header[1].kind = "junk"
    \/ Len(range_header) < 2
    \/ range_header[2].kind = "junk"

\* server.py:512-539: the 206 response to a header that parses.
RangeResponse(range_header, file_size) ==
    LET start == IF range_header[1].kind = "empty" THEN 0
                 ELSE range_header[1].value
        end == IF range_header[2].kind = "empty" THEN file_size - 1
               ELSE range_header[2].value
        length == end - start + 1
    IN  [ code           |-> 206,
          content_range  |-> <<start, end, file_size>>,
          content_length |-> length,
          body           |-> generate(start, length, file_size) ]

\* server.py:543-547: send_file, the whole file.
FullResponse(file_size) ==
    [ code |-> 200, content_length |-> file_size, body |-> Bytes(0, file_size) ]

\* stream_audio, had it looked for the file before it looked at the name.
stream_audio_exists_first(filename, range_header) ==
    IF filename \notin DOMAIN disk
    THEN [code |-> 404]
    ELSE IF Contains(filename, <<".", ".">>) \/ Contains(filename, <<"/">>)
    THEN [code |-> 403]
    ELSE IF range_header # << >> /\ ~RangeRaises(range_header)
    THEN RangeResponse(range_header, disk[filename])
    ELSE FullResponse(disk[filename])

\* server.py:497-547: the response to GET /stream/<filename>.
stream_audio(filename, range_header) ==
    IF Contains(filename, <<".", ".">>) \/ Contains(filename, <<"/">>)
    THEN [code |-> 403]
    ELSE IF filename \notin DOMAIN disk
    THEN [code |-> 404]
    ELSE IF range_header # << >> /\ ~RangeRaises(range_header)
    THEN RangeResponse(range_header, disk[filename])
    ELSE FullResponse(disk[filename])

\* One request is served.
StreamAudio(filename, range_header) ==
    /\ served' = [ filename |-> filename, range |-> range_header,
                   resp |-> stream_audio(filename, range_header) ]
    /\ UNCHANGED <<jobs, job_queue, cache, files, workers, subs, evicting,
                   waiter, disk, retention, persist>>

(***************************************************************************)
(* job_events.generate: one SSE connection                                 *)
(***************************************************************************)
\* list.remove(q): the list without the first occurrence of q.
RECURSIVE Remove(_, _)
Remove(l, q) ==
    IF l = << >> THEN << >>
    ELSE IF Head(l) = q THEN Tail(l)
    ELSE <<Head(l)>> \o Remove(Tail(l), q)

\* server.py:413-419: the job exists; q = Queue(); job.subscribers.append(q).
Subscribe(s, job_id) ==
    /\ subs[s].pc = "idle"
    /\ job_id \in JobIds
    /\ subs' = [subs EXCEPT ![s] = [SubIdle EXCEPT !.pc = "reg", !.job = job_id]]
    /\ jobs' = [jobs EXCEPT ![job_id].subscribers = Append(@, s)]
    /\ UNCHANGED <<job_queue, cache, files, workers, evicting, http, retention, persist>>

\* Initial, had generate gone to its queue without the first yield.
InitialSkipped(s) ==
    /\ subs[s].pc = "reg"
    /\ subs' = [subs EXCEPT ![s].pc = "wait"]
    /\ UNCHANGED <<jobs, job_queue, cache, files, workers, evicting, http, retention, persist>>

\* server.py:422: the initial snapshot, read from the live record.
Initial(s) ==
    /\ subs[s].pc = "reg"
    /\ subs' = [subs EXCEPT ![s].pc = "wait",
                            ![s].delivered = Append(@, to_dict(jobs[subs[s].job]))]
    /\ UNCHANGED <<jobs, job_queue, cache, files, workers, evicting, http, retention, persist>>

\* Get, had the handle been a LifoQueue: the newest snapshot comes first.
GetNewest(s) ==
    /\ subs[s].pc = "wait"
    /\ subs[s].q # << >>
    /\ LET data == subs[s].q[Len(subs[s].q)]
       IN  subs' = [subs EXCEPT
                      ![s].q = SubSeq(@, 1, Len(@) - 1),
                      ![s].delivered = Append(@, data),
                      ![s].pc = IF data.status \in Terminal THEN "fin" ELSE "wait"]
    /\ UNCHANGED <<jobs, job_queue, cache, files, workers, evicting, http, retention, persist>>

\* server.py:426-431: q.get returned a snapshot; a terminal one ends the loop.
Get(s) ==
    /\ subs[s].pc = "wait"
    /\ subs[s].q # << >>
    /\ LET data == Head(subs[s].q)
       IN  subs' = [subs EXCEPT
                      ![s].q = Tail(@),
                      ![s].delivered = Append(@, data),
                      ![s].pc = IF data.status \in Terminal THEN "fin" ELSE "wait"]
    /\ UNCHANGED <<jobs, job_queue, cache, files, workers, evicting, http, retention, persist>>

\* server.py:426 and 432: q.get(timeout=30) found the queue empty and raised.
Timeout(s) ==
    /\ subs[s].pc = "wait"
    /\ subs[s].q = << >>
    /\ subs' = [subs EXCEPT ![s].pc = "hb"]
    /\ UNCHANGED <<jobs, job_queue, cache, files, workers, evicting, http, retention, persist>>

\* server.py:433-436: the heartbeat is sent; a terminal job ends the loop.
Heartbeat(s) ==
    /\ subs[s].pc = "hb"
    /\ subs' = [subs EXCEPT ![s].pc =
                  IF jobs[subs[s].job].status \in Terminal THEN "fin" ELSE "wait"]
    /\ UNCHANGED <<jobs, job_queue, cache, files, workers, evicting, http, retention, persist>>

\* The client goes away: the generator is closed at the yield it waits in.
Disconnect(s) ==
    /\ subs[s].pc \in {"wait", "hb"}
    /\ subs' = [subs EXCEPT ![s].pc = "fin", ![s].disc = TRUE]
    /\ UNCHANGED <<jobs, job_queue, cache, files, workers, evicting, http, retention, persist>>

\* server.py:437-439: finally: if q in job.subscribers: remove it.
Unsubscribe(s) ==
    /\ subs[s].pc = "fin"
    /\ jobs' = [jobs EXCEPT ![subs[s].job].subscribers = Remove(@, s)]
    /\ subs' = [subs EXCEPT ![s].pc = "closed"]
    /\ UNCHANGED <<job_queue, cache, files, workers, evicting, http, retention, persist>>

(***************************************************************************)
(* The program                                                             *)
(***************************************************************************)
\* _worker and _process_job without the calls of progress_hook and, as long
\* as no handle is registered, of q.put.
ProcessStep(w) ==
    \/ Dequeue(w)
    \/ Start(w)
    \/ FetchInfo(w)
    \/ \E produced \in BOOLEAN : FetchReturn(w, produced)
    \/ FetchRaise(w)
    \/ VerifyAndCache(w)
    \/ \E ok \in BOOLEAN : SaveCache(w, ok)
    \/ SetResult(w)
    \/ Complete(w)
    \/ Fail(w)

\* The same with the loop of notify_subscribers.
PublishingStep(w) ==
    \/ ProcessStep(w)
    \/ NotifyStep(w)

WorkerStep(w) ==
    \/ PublishingStep(w)
    \/ \E d \in Reports : Report(w, d)

SubscriberStep(s) ==
    \/ \E job_id \in JobIds : Subscribe(s, job_id)
    \/ Initial(s)
    \/ Get(s)
    \/ Timeout(s)
    \/ Heartbeat(s)
    \/ Disconnect(s)
    \/ Unsubscribe(s)

\* POST /jobs for one of `videos`, at most `limit` times in a behaviour.
CreateJob(limit, videos) ==
    /\ Len(jobs) < limit
    /\ \E video_id \in videos : create_job(video_id)
    /\ UNCHANGED <<cache, files, workers, subs, evicting, http, retention, persist>>

DeleteCached ==
    \/ \E video_id \in VideoIds : EvictFile(video_id)
    \/ \E ok \in BOOLEAN : EvictEntry(ok)

\* The cleanup_worker thread.
CleanupWorker ==
    \/ \E order \in Orders(DOMAIN cache) : SweepStart(order)
    \/ \E removed \in BOOLEAN : SweepEntry(removed)
    \/ SweepDel
    \/ \E ok \in BOOLEAN : SweepEnd(ok)

\* GET /stream/<filename>, with or without a Range header.
StreamRequest ==
    \E filename \in Filenames, range_header \in RangeHeaders :
        StreamAudio(filename, range_header)

\* /download for one of `videos`; a request is taken while fewer than `limit`
\* jobs exist.
DownloadAudio(limit, videos) ==
    \/ Len(jobs) < limit /\ \E video_id \in videos : DownloadLookup(video_id)
    \/ DownloadCreate
    \/ DownloadPoll
    \/ DownloadReply
    \/ DownloadError

\* Every thread of the program.
Next ==
    \/ CreateJob(MaxJobs, VideoIds)
    \/ \E w \in Workers : WorkerStep(w)
    \/ \E s \in Subscribers : SubscriberStep(s)
    \/ DeleteCached
    \/ DownloadAudio(MaxJobs, VideoIds)
    \/ CleanupWorker
    \/ Tick
    \/ StreamRequest

Spec == Init /\ [][Next]_vars

\* The worker pool: requests for one video id; jobs are created and run,
\* nothing is evicted, no SSE connection is opened.
NextPool ==
    \/ CreateJob(MaxJobs, {"va"})
    \/ \E w \in Workers : ProcessStep(w)

SpecPool == Init /\ [][NextPool]_vars

\* The synchronous path: /download requests for one video id and the
\* workers that run the jobs they create.
NextWait ==
    \/ DownloadAudio(MaxWaitJobs, {"va"})
    \/ \E w \in Workers : ProcessStep(w)

SpecWait == Init /\ [][NextWait]_vars

\* The worker threads run for ever, and extract_info returns or raises.
FairWait == SpecWait /\ \A w \in Workers : WF_vars(ProcessStep(w))

\* The worker threads run for ever, and extract_info returns or raises.
FairPool == SpecPool /\ \A w \in Workers : WF_vars(ProcessStep(w))

\* The progress of a job: every report yt-dlp may deliver to progress_hook.
NextProgress ==
    \/ CreateJob(MaxProgressJobs, VideoIds)
    \/ \E w \in Workers : ProcessStep(w)
    \/ \E w \in Workers, d \in Reports : Report(w, d)

SpecProgress == Init /\ [][NextProgress]_vars

\* The cache: jobs, evictions, and a cache.json that a previous run may have
\* left with an entry for "va".
InitCache ==
    /\ jobs = << >>
    /\ job_queue = << >>
    /\ \E loaded \in BOOLEAN :
         /\ cache = IF loaded THEN DictPut(<< >>, "va", CacheEntry0) ELSE << >>
         /\ files = IF loaded THEN {CacheEntry0.file} ELSE {}
    /\ workers = [w \in Workers |-> WorkerIdle]
    /\ subs = [s \in Subscribers |-> SubIdle]
    /\ evicting = None
    /\ InitHttp
    /\ InitRetention
    /\ InitPersist(FALSE)

NextCache ==
    \/ CreateJob(MaxCacheJobs, {"va"})
    \/ \E w \in Workers : ProcessStep(w)
    \/ DeleteCached

SpecCache == InitCache /\ [][NextCache]_vars

\* An entry load_cache() found in CACHE_FILE for video_id, and its file.
LoadedFile(video_id) == <<"audio", IF video_id = "va" THEN 0 ELSE -1>>

LoadedEntry(video_id, downloaded_at) ==
    [file |-> LoadedFile(video_id), metadata |-> <<"title", video_id>>,
     downloaded_at |-> downloaded_at]

\* The retention sweep: the program starts at some hour with the entries of
\* cache.json, each written at that hour or before; some of their files may
\* be gone.  Hours go by, the sweeper makes its passes, entries are evicted
\* on request.
InitHours(followed) ==
    /\ jobs = << >>
    /\ job_queue = << >>
    /\ clock \in 0 .. MaxClock
    /\ \E loaded \in SUBSET VideoIds :
         \E downloaded_at \in [loaded -> 0 .. clock], there \in SUBSET loaded :
            /\ cache = [v \in loaded |-> LoadedEntry(v, downloaded_at[v])]
            /\ files = {LoadedFile(v) : v \in there}
    /\ workers = [w \in Workers |-> WorkerIdle]
    /\ subs = [s \in Subscribers |-> SubIdle]
    /\ evicting = None
    /\ InitHttp
    /\ sweeper = SweeperIdle
    /\ InitPersist(followed)

InitSweep == InitHours(FALSE)

NextSweep ==
    \/ Tick
    \/ CleanupWorker
    \/ DeleteCached

SpecSweep == InitSweep /\ [][NextSweep]_vars

\* Serving files: what is under the paths the file names resolve to (for
\* each name nothing, or a file of the size the files have), and requests.
InitServe ==
    /\ jobs = << >>
    /\ job_queue = << >>
    /\ cache = << >>
    /\ files = {}
    /\ workers = [w \in Workers |-> WorkerIdle]
    /\ subs = [s \in Subscribers |-> SubIdle]
    /\ evicting = None
    /\ waiter = WaiterIdle
    /\ \E there \in SUBSET Filenames, file_size \in 0 .. MaxSize :
         disk = [filename \in there |-> file_size]
    /\ served = NotServed
    /\ InitRetention
    /\ InitPersist(FALSE)

NextServe == StreamRequest

SpecServe == InitServe /\ [][NextServe]_vars

\* One SSE connection on a job.
NextStream ==
    \/ CreateJob(MaxFanoutJobs, {"va"})
    \/ \E w \in Workers : PublishingStep(w)
    \/ SubscriberStep("s1")

SpecStream == Init /\ [][NextStream]_vars

\* The generator is driven to its end (the server keeps reading it, and
\* q.get times out), and the workers run.
FairStream ==
    /\ SpecStream
    /\ WF_vars(SubscriberStep("s1"))
    /\ \A w \in Workers : WF_vars(PublishingStep(w))

\* The fan-out: two SSE connections that stay until their stream ends.
NextFanout ==
    \/ CreateJob(MaxFanoutJobs, {"va"})
    \/ \E w \in Workers : PublishingStep(w)
    \/ \E s \in Subscribers :
         \/ \E job_id \in JobIds : Subscribe(s, job_id)
         \/ Initial(s)
         \/ Get(s)
         \/ Timeout(s)
         \/ Heartbeat(s)
         \/ Unsubscribe(s)

SpecFanout == Init /\ [][NextFanout]_vars

(***************************************************************************)
(* The claims                                                              *)
(***************************************************************************)
NonTerminal == {"queued", "downloading"}

\* C1: the only status changes of a job record are queued -> downloading,
\* downloading -> completed and downloading -> failed; none leaves a
\* terminal status.
StatusTransitions ==
    [][\A j \in JobIds :
         jobs'[j].status # jobs[j].status =>
           <<jobs[j].status, jobs'[j].status>> \in
               { <<"queued", "downloading">>,
                 <<"downloading", "completed">>,
                 <<"downloading", "failed">> }]_vars

\* C1's case: one job has run to completed and another to failed.
StatusTransitionsWitness ==
    \E j1, j2 \in JobIds :
        /\ jobs[j1].status = "completed" /\ jobs[j1].stage = "Complete!"
        /\ jobs[j2].status = "failed"

Downloading == {j \in JobIds : jobs[j].status = "downloading"}

\* C2: at most MAX_CONCURRENT_JOBS job records are downloading.
AtMostWDownloading == Cardinality(Downloading) <= MAX_CONCURRENT_JOBS

\* C2's case: every worker is downloading and a further job waits its turn.
AtMostWDownloadingWitness ==
    /\ Cardinality(Downloading) = MAX_CONCURRENT_JOBS
    /\ job_queue # << >>
    /\ jobs[Head(job_queue)].status = "queued"

\* C3: no two job records of one external id are non-terminal together.
NoDuplicateFetch ==
    \A j1, j2 \in JobIds :
        (/\ j1 # j2
         /\ jobs[j1].video_id = jobs[j2].video_id
         /\ jobs[j1].status \in NonTerminal)
        => jobs[j2].status \notin NonTerminal

\* C4: while a job is not terminal its progress never decreases.
ProgressMonotone ==
    [][\A j \in JobIds :
         jobs[j].status \in NonTerminal =>
           jobs'[j].progress >= jobs[j].progress]_vars

\* C5: a job record shows progress 100 exactly when its status is completed.
Progress100IffCompleted ==
    \A j \in JobIds : (jobs[j].progress = 100) <=> (jobs[j].status = "completed")

\* The records create_job made on its cache fast path (server.py:136).
CacheHits == {j \in JobIds : jobs[j].stage = "Loaded from cache"}

\* C6 as claimed: any two fast-path records of one external id are
\* completed with progress 100, were never queued, and name one artifact.
CacheHitsSameArtifact ==
    \A j1, j2 \in CacheHits :
        jobs[j1].video_id = jobs[j2].video_id =>
            /\ jobs[j1].status = "completed" /\ jobs[j1].progress = 100
            /\ \A k \in 1 .. Len(job_queue) : job_queue[k] # j1
            /\ jobs[j1].stream_url = jobs[j2].stream_url

\* A step of create_job for video_id that found a valid cache entry.
CacheHitStep(video_id) ==
    /\ CacheValid(video_id)
    /\ Len(jobs') = Len(jobs) + 1
    /\ jobs'[Len(jobs')].video_id = video_id

\* C6, amended: a call that finds a valid entry queues nothing and returns a
\* completed record with progress 100 that names the artifact of that entry;
\* it names the same artifact as every earlier fast-path record made from
\* the entry that is still the id's entry (the entry was not replaced).
CacheHitIdempotent ==
    [][\A video_id \in VideoIds :
         CacheHitStep(video_id) =>
           LET new == jobs'[Len(jobs')]
           IN  /\ job_queue' = job_queue
               /\ new.status = "completed" /\ new.progress = 100
               /\ new.stream_url = StreamUrl(cache[video_id].file)
               /\ \A j \in CacheHits :
                    (/\ jobs[j].video_id = video_id
                     /\ jobs[j].file_path = cache[video_id].file)
                    => jobs[j].stream_url = new.stream_url]_vars

\* C6's case: two fast-path records of one id, made from the same entry.
CacheHitIdempotentWitness ==
    \E j1, j2 \in CacheHits :
        /\ j1 # j2
        /\ jobs[j1].video_id = jobs[j2].video_id
        /\ jobs[j1].file_path = jobs[j2].file_path
        /\ jobs[j1].video_id \in DOMAIN cache
        /\ cache[jobs[j1].video_id].file = jobs[j1].file_path

\* Whether a terminal snapshot is among the events.
HasTerminal(events) ==
    \E k \in 1 .. Len(events) : events[k].status \in Terminal

\* The connections whose stream the server has ended (the loop was left).
Ended == {s \in Subscribers : subs[s].pc \in {"fin", "closed"}}

\* C7: a stream the server ended, without a disconnect, has delivered a
\* terminal snapshot.  (A connection whose first snapshot is not terminal
\* subscribed while the job was not terminal.)
ClosedOnlyAfterTerminal ==
    \A s \in Ended : ~subs[s].disc => HasTerminal(subs[s].delivered)

\* A connection registered on a job that is completed or failed.
LateSubscriber(s) ==
    /\ subs[s].pc = "reg"
    /\ jobs[subs[s].job].status \in Terminal

\* The stream is closed and its first event was a terminal snapshot.
ClosedAfterTerminalFirst(s) ==
    /\ subs[s].pc = "closed"
    /\ subs[s].delivered # << >>
    /\ subs[s].delivered[1].status \in Terminal

\* C8: a connection registered on a terminal job is delivered a terminal
\* snapshot as its first event (read from the record, not from its queue)
\* and its stream then closes.
LateSubscriberServed ==
    \A s \in Subscribers : LateSubscriber(s) ~> ClosedAfterTerminalFirst(s)

\* C8's case: the stream of a connection that registered on a job whose
\* worker had finished is closed, and was not disconnected.
LateSubscriberServedWitness ==
    \E s \in Subscribers :
        /\ ClosedAfterTerminalFirst(s)
        /\ ~subs[s].disc
        /\ Len(subs[s].delivered) = 1

\* The job's worker has left notify_subscribers for the last time.
Published(job_id) ==
    /\ jobs[job_id].status \in Terminal
    /\ \A w \in Workers : workers[w].job # job_id

\* C9, for the publish of the terminal snapshot: once it is over, every
\* handle still registered and waiting has been given the terminal snapshot
\* (in its queue, or already delivered).
PublishReachesAll ==
    \A s \in Subscribers :
        (subs[s].pc \in {"wait", "hb"} /\ Published(subs[s].job))
        => HasTerminal(subs[s].delivered \o subs[s].q)

\* C10: every job create_job has put on the work queue reaches completed or
\* failed (the workers are scheduled; extract_info returns or raises).
EveryJobTerminates ==
    \A j \in 1 .. MaxJobs :
        (j \in JobIds) ~> (j \in JobIds /\ jobs[j].status \in Terminal)

\* C10's case: jobs that were queued have failed at both places _process_job
\* can raise (the fetch, and the check or save after it) and one completed.
EveryJobTerminatesWitness ==
    /\ \E j \in JobIds : jobs[j].status = "failed" /\ jobs[j].progress = 10
    /\ \E j \in JobIds : jobs[j].status = "failed" /\ jobs[j].progress = 85
    /\ \E j \in JobIds : jobs[j].status = "completed" /\ jobs[j].stage = "Complete!"
    /\ job_queue = << >>

\* The answer download_audio gives when it stops waiting (server.py:493).
TimeoutError == [code |-> 500, error |-> TimedOut]

\* download_audio answers while the job it waited for is not terminal.
TimeoutReturn ==
    /\ waiter.pc = "error"
    /\ waiter'.pc = "idle"
    /\ jobs[waiter.job].status \notin Terminal

\* C11: when download_audio stops waiting for a job that is not terminal, it
\* answers the timeout error and leaves the job, the work queue and the
\* workers as they are; the job then reaches completed or failed, and when it
\* is completed the cache has an entry for its external id.
TimeoutLeavesJobRunning ==
    /\ [][TimeoutReturn =>
            /\ waiter'.resp = TimeoutError
            /\ jobs' = jobs
            /\ job_queue' = job_queue
            /\ workers' = workers]_vars
    /\ \A j \in 1 .. MaxWaitJobs :
         (waiter.job = j /\ waiter.resp = TimeoutError)
         ~> (/\ j \in JobIds
             /\ jobs[j].status \in Terminal
             /\ jobs[j].status = "completed" =>
                  jobs[j].video_id \in DOMAIN cache)

\* C11's case: the request was answered with the timeout error, and its job
\* has since been completed by its worker and is in the cache.
TimeoutLeavesJobRunningWitness ==
    /\ waiter.pc = "idle"
    /\ waiter.resp = TimeoutError
    /\ jobs[waiter.job].status = "completed"
    /\ jobs[waiter.job].stage = "Complete!"
    /\ jobs[waiter.job].video_id \in DOMAIN cache
    /\ cache[jobs[waiter.job].video_id] = CacheEntry(waiter.job)

\* A step of create_job for video_id while the id's cache entry names a file
\* that is gone (or empty).
StaleLookupStep(video_id) ==
    /\ video_id \in DOMAIN cache
    /\ ~FileOk(cache[video_id].file)
    /\ Len(jobs') = Len(jobs) + 1
    /\ jobs'[Len(jobs')].video_id = video_id

\* C12: create_job for an id whose cache entry points at a missing file
\* returns a fresh record (queued, progress 0, no result) and puts its id at
\* the end of the work queue.
StaleEntryIsMiss ==
    [][\A video_id \in VideoIds :
         StaleLookupStep(video_id) =>
           /\ jobs'[Len(jobs')] = DownloadJob(video_id)
           /\ jobs'[Len(jobs')].status = "queued"
           /\ jobs'[Len(jobs')].progress = 0
           /\ job_queue' = Append(job_queue, Len(jobs'))]_vars

\* C12's case: the entry cache.json was loaded with is still there, its file
\* has been removed, and the first job, created meanwhile, is on the queue.
StaleEntryIsMissWitness ==
    /\ "va" \in DOMAIN cache
    /\ cache["va"] = CacheEntry0
    /\ ~FileOk(CacheEntry0.file)
    /\ Len(jobs) >= 1
    /\ jobs[1].status = "queued"
    /\ job_queue = <<1>>

\* C13: a job that ended failed has left no cache entry of its own (an entry
\* that names the output file of that job), wherever it failed.
FailedJobsLeaveNoEntry ==
    \A j \in JobIds :
        jobs[j].status = "failed" =>
            ~(/\ jobs[j].video_id \in DOMAIN cache
              /\ cache[jobs[j].video_id].file = OutputPath(j))

\* C14: a job whose fetch succeeded (it got as far as progress 85) and whose
\* output file is there and non-empty is not failed: a save_cache that
\* raises does not fail it.
SaveFailureKeepsJob ==
    \A j \in JobIds :
        (jobs[j].progress >= 85 /\ FileOk(OutputPath(j)))
        => jobs[j].status # "failed"

\* The place of a snapshot in the order in which _process_job publishes the
\* snapshots of one job (server.py:166, 234, 249, and 281 or 291).
PublishRank(snapshot) ==
    CASE snapshot.stage = "Starting download..." -> 1
      [] snapshot.stage = "Fetching video info..." -> 2
      [] snapshot.stage = "Finalizing..." -> 3
      [] snapshot.stage \in {"Complete!", "Failed"} -> 4
      [] OTHER -> 0

\* What a connection has been given through its queue, followed by what
\* still waits in the queue (its first event is read from the record).
FromQueue(s) ==
    (IF subs[s].delivered = << >> THEN << >> ELSE Tail(subs[s].delivered))
    \o subs[s].q

\* C15: the snapshots a subscriber gets through its queue come in the order
\* in which the job's worker published them.
DeliveredInPublishOrder ==
    \A s \in Subscribers :
        \A a, b \in 1 .. Len(FromQueue(s)) :
            a < b => PublishRank(FromQueue(s)[a]) < PublishRank(FromQueue(s)[b])

\* C15's case: a connection has read its first event and then all four
\* snapshots of a job through its queue.
DeliveredInPublishOrderWitness ==
    \E s \in Subscribers :
        /\ subs[s].pc \in {"fin", "closed"}
        /\ ~subs[s].disc
        /\ Len(subs[s].delivered) = 5
        /\ PublishRank(subs[s].delivered[5]) = 4

\* The entry at position k of the sweeper's snapshot is older than the
\* retention window of the pass.
Expired(k) == sweeper.items[k][2].downloaded_at < sweeper.cutoff

\* Neither the file of the snapshot's entry k nor a cache entry naming that
\* file is left.
Evicted(k) ==
    /\ sweeper.items[k][2].file \notin files
    /\ \A v \in DOMAIN cache : cache[v].file # sweeper.items[k][2].file

\* The snapshot has been gone through: what the pass leaves behind.
PassResult ==
    \A k \in 1 .. Len(sweeper.items) :
        (Expired(k) /\ k \notin sweeper.errors) => Evicted(k)

\* C16: when a pass of the sweeper ends, every entry of its snapshot that
\* was older than the window, and for which no error was logged, is gone
\* with its file.  An error is logged only for an expired entry, when
\* os.remove fails on a file that is there or when the key is already
\* deleted (never for a missing file), and the pass goes on after it.
SweepEvictsExpired ==
    [][/\ (sweeper.pc # "sleep" /\ sweeper'.pc = "sleep") => PassResult'
       /\ (sweeper.pc # "sleep" /\ sweeper'.errors # sweeper.errors) =>
            /\ Expired(sweeper.i)
            /\ \/ FileOk(sweeper.items[sweeper.i][2].file)
               \/ sweeper.items[sweeper.i][1] \notin DOMAIN cache
            /\ sweeper'.pc = "entry"
            /\ sweeper'.i = sweeper.i + 1]_vars

\* C16's case: a pass over two expired entries is over; an error was logged
\* for the first, which is still there, and the second was deleted after it.
SweepEvictsExpiredWitness ==
    /\ sweeper.pc = "sleep"
    /\ Len(sweeper.items) = 2
    /\ Expired(1) /\ Expired(2)
    /\ sweeper.errors = {1}
    /\ sweeper.deleted = 1
    /\ ~Evicted(1)
    /\ Evicted(2)

\* A Range header bytes=<start>-<end> with an integer start and an integer
\* or no end.
WellFormedRange(range_header) ==
    /\ Len(range_header) = 2
    /\ range_header[1].kind = "int"
    /\ range_header[2].kind \in {"int", "empty"}

\* C17: a request for a file that is there, with a Range header
\* bytes=<start>-<end> (end defaulting to the last byte), is answered 206
\* with Content-Range start-end/total and Content-Length end-start+1, and
\* the bytes streamed are the bytes start..end of the file, as many as the
\* Content-Length says.
RangeServedExactly ==
    (served.resp.code \in {200, 206} /\ WellFormedRange(served.range)) =>
        LET total == disk[served.filename]
            start == served.range[1].value
            end == IF served.range[2].kind = "empty" THEN total - 1
                   ELSE served.range[2].value
        IN  /\ served.resp.code = 206
            /\ served.resp.content_range = <<start, end, total>>
            /\ served.resp.content_length = end - start + 1
            /\ Len(served.resp.body) = served.resp.content_length
            /\ served.resp.body = Bytes(start, end + 1)

\* The file name has a '..' or a '/' in it.
Traversal(filename) ==
    Contains(filename, <<".", ".">>) \/ Contains(filename, <<"/">>)

\* C20: a request whose file name has a '..' or a '/' in it is answered 403,
\* whatever is or is not under the path the name resolves to.
TraversalForbidden ==
    Traversal(served.filename) => served.resp = [code |-> 403]

\* C20's case: a file is there under the path '../a' resolves to, and the
\* request for '../a' was answered 403.
TraversalForbiddenWitness ==
    /\ served.filename = <<".", ".", "/", "a">>
    /\ served.filename \in DOMAIN disk
    /\ disk[served.filename] > 0
    /\ served.resp.code = 403

\* C18: a job record carries its result (a stream locator and populated
\* metadata) exactly when its status is completed.
ResultIffCompleted ==
    \A j \in JobIds :
        IF jobs[j].status = "completed"
        THEN jobs[j].stream_url # None /\ jobs[j].metadata # None
        ELSE jobs[j].stream_url = None /\ jobs[j].metadata = None

\* How often job id j is on the work queue q.
Occurrences(q, j) == Cardinality({k \in 1 .. Len(q) : q[k] = j})

\* The workers that have taken job j from the queue and not finished it.
Runners(j) == {w \in Workers : workers[w].pc # "idle" /\ workers[w].job = j}

\* C19: a job id is on the work queue and with the workers at most once in
\* all; create_job puts the id of a fresh record on the queue once and the
\* id of a fast-path record never; afterwards the id is never put on the
\* queue again; one worker takes it up, from the queue, while the record is
\* queued; a record that is past queued and has left its worker (completed
\* or failed) is not on the queue and is not taken up again.
EnqueuedOnceRunOnce ==
    [][\A j \in 1 .. Len(jobs') :
         /\ Occurrences(job_queue', j) + Cardinality(Runners(j)') <= 1
         /\ j \notin JobIds =>
              Occurrences(job_queue', j) =
                  IF jobs'[j].stage = "Loaded from cache" THEN 0 ELSE 1
         /\ j \in JobIds =>
              /\ Occurrences(job_queue', j) <= Occurrences(job_queue, j)
              /\ (Runners(j)' # {} /\ Runners(j)' # Runners(j)) =>
                   /\ Runners(j) = {}
                   /\ jobs[j].status = "queued"
                   /\ Head(job_queue) = j
                   /\ job_queue' = Tail(job_queue)
              /\ (jobs[j].status # "queued" /\ Runners(j) = {}) =>
                   /\ Runners(j)' = {}
                   /\ Occurrences(job_queue', j) = 0]_vars

\* C19's case: one job has failed, one has completed, one was answered from
\* the cache; the queue is empty and every worker is back at the queue.
EnqueuedOnceRunOnceWitness ==
    /\ \E j \in JobIds : jobs[j].status = "failed"
    /\ \E j \in JobIds : jobs[j].stage = "Complete!" /\ jobs[j].status = "completed"
    /\ \E j \in JobIds : jobs[j].stage = "Loaded from cache"
    /\ job_queue = << >>
    /\ \A w \in Workers : workers[w].pc = "idle"

\* C21: what a connection is sent, its first event (read from the record)
\* and then the snapshots from its queue, never goes back to an earlier
\* state of the job.
DeliveredNeverGoesBack ==
    \A s \in Subscribers :
        \A a, b \in 1 .. Len(subs[s].delivered) :
            a < b => PublishRank(subs[s].delivered[a])
                       <= PublishRank(subs[s].delivered[b])

\* The retention sweep beside the jobs, with the content of CACHE_FILE
\* followed: the program starts as in InitSweep, a job is created for "va"
\* (when its loaded entry is missing or its file is gone) and runs while the
\* hours go by, the sweeper makes its passes and entries are evicted on
\* request.
InitRetain == InitHours(TRUE)

NextRetain ==
    \/ Tick
    \/ CleanupWorker
    \/ DeleteCached
    \/ CreateJob(MaxSweepJobs, {"va"})
    \/ \E w \in Workers : ProcessStep(w)

SpecRetain == InitRetain /\ [][NextRetain]_vars

\* A step of the sweeper's pass (server.py:604-616).
SweeperStep == sweeper.pc # "sleep" /\ sweeper' # sweeper

\* C22: no step of a sweep pass removes an entry that is in the cache with a
\* completion time inside the window of the pass (downloaded_at >= cutoff),
\* nor the file of such an entry; this covers an entry a job writes for a key
\* after the pass took its snapshot.
SweepKeepsFresh ==
    [][SweeperStep =>
         \A video_id \in DOMAIN cache :
            cache[video_id].downloaded_at >= sweeper.cutoff =>
               /\ video_id \in DOMAIN cache'
               /\ cache'[video_id] = cache[video_id]
               /\ cache[video_id].file \in files
                    => cache[video_id].file \in files']_vars

\* No operation that changes the cache is under way: no worker is between
\* its cache write and the end of its save_cache, no eviction and no pass
\* of the sweeper is running.
Quiescent ==
    /\ \A w \in Workers : workers[w].pc \notin {"save", "result"}
    /\ evicting = None
    /\ sweeper.pc = "sleep"

\* C23: whenever no operation that changes the cache is under way,
\* CACHE_FILE holds exactly the mapping the cache holds in memory.
PersistedIsCache ==
    (cache_file # None /\ Quiescent) => cache_file = <<cache>>

====
